---- MODULE Spec2Model ----
(***************************************************************************)
(* Model of veteran_education_financial_readiness:                         *)
(*   - app.py: generate_months and build_forecast (the cashflow forecaster) *)
(*   - calculations.py: the benefit estimator                              *)
(*                                                                         *)
(* Numbers.  The program computes with binary floating point.  The model   *)
(* computes with exact rationals:                                          *)
(*   - forecaster amounts are integers counting quarter-cents (1/400 USD), *)
(*     so that amount * multiplier is exact for the multipliers 1.0, 0.75, *)
(*     0.5 and 0.25; a multiplier is stored as its number of quarters;     *)
(*   - estimator amounts are integers counting cents, intermediate values  *)
(*     are fractions <<numerator, denominator>> of cents, and round(x, 2)  *)
(*     is rounding of such a fraction to a whole number of cents.  When    *)
(*     the exact value lies half-way between two cents the float that the  *)
(*     program holds may lie on either side, so the direction of rounding  *)
(*     at a tie is a nondeterministic input of the call.                   *)
(***************************************************************************)
EXTENDS Integers, Sequences, FiniteSets, TLC

VARIABLES
    pc,                         \* position of the running call
    start_date, end_date,       \* build_forecast / generate_months arguments
    starting_savings, bah_full_time_base,
    disability_monthly, other_income_monthly,
    fixed_expenses_monthly, variable_expenses_monthly,
    term_configs,
    dates,                      \* build_forecast: dates = generate_months(...)
    data,                       \* build_forecast: rows appended so far
    balance,                    \* build_forecast: running balance
    profile, cfg, full_mha_for_zip,   \* estimator arguments
    outcome,                    \* how the estimator call ended
    result,                     \* the dict the estimator returned
    final_balance, min_balance, \* main: the metrics derived from the forecast
    runway_months, month_negative

forecastVars == <<start_date, end_date, starting_savings, bah_full_time_base,
                  disability_monthly, other_income_monthly,
                  fixed_expenses_monthly, variable_expenses_monthly,
                  term_configs, dates, data, balance>>
benefitVars == <<profile, cfg, full_mha_for_zip, outcome, result>>
summaryVars == <<final_balance, min_balance, runway_months, month_negative>>
vars == <<pc, forecastVars, benefitVars, summaryVars>>

----------------------------------------------------------------------------
(* Bounds *)

MaxDay == 2          \* days of month drawn for dates: 1..MaxDay
MaxSpan == 2         \* forecast dates lie 0..MaxSpan months after Dec 2025
MaxYearSpan == 1     \* generate_months end years: 2025..2025+MaxYearSpan
MaxTerms == 2        \* length of term_configs

----------------------------------------------------------------------------
(* Dates: datetime.date as a record, ordered as Python orders dates *)

Date(y, m, d) == [year |-> y, month |-> m, day |-> d]

\* None, for a term's start or end
NoDate == [year |-> 0, month |-> 0, day |-> 0]

DateLT(a, b) ==
    \/ a.year < b.year
    \/ a.year = b.year /\ a.month < b.month
    \/ a.year = b.year /\ a.month = b.month /\ a.day < b.day

DateLE(a, b) == a = b \/ DateLT(a, b)

\* mutant of NextMonth: December is skipped (the wrap test is off by one)
NextMonthSkipsDecember(year, month) ==
    IF month + 1 >= 12 THEN <<year + 1, 1>> ELSE <<year, month + 1>>

\* the "move to next month" step of generate_months, as <<year, month>>
NextMonth(year, month) ==
    IF month + 1 > 12 THEN <<year + 1, 1>> ELSE <<year, month + 1>>

\* mutant of GenerateMonthsLoop: the loop stops at end_date's month instead of
\* after it (current >= end_date)
RECURSIVE GenerateMonthsExclusive(_, _, _, _)
GenerateMonthsExclusive(year, month, end, months) ==
    LET current == Date(year, month, 1) IN
    IF DateLE(end, current)
    THEN months
    ELSE LET nxt == NextMonth(year, month) IN
         GenerateMonthsExclusive(nxt[1], nxt[2], end, Append(months, current))

\* the while loop of generate_months, entered with year, month and the list
\* built so far
RECURSIVE GenerateMonthsLoop(_, _, _, _)
GenerateMonthsLoop(year, month, end, months) ==
    LET current == Date(year, month, 1) IN
    IF DateLT(end, current)
    THEN months
    ELSE LET nxt == NextMonth(year, month) IN
         GenerateMonthsLoop(nxt[1], nxt[2], end, Append(months, current))

generate_months(start, end) ==
    GenerateMonthsLoop(start.year, start.month, end, <<>>)

----------------------------------------------------------------------------
(* Term schedule entries *)

\* INTENSITY_OPTIONS, multipliers in quarters: 1.0, 0.75, 0.5, 0.25
INTENSITY_OPTIONS ==
    [l \in {"Full time (100%)", "3/4 time (75%)", "Half time (50%)",
            "Less than half (25%)"} |->
        CASE l = "Full time (100%)" -> 4
          [] l = "3/4 time (75%)" -> 3
          [] l = "Half time (50%)" -> 2
          [] l = "Less than half (25%)" -> 1]

TermNames == <<"Winter", "Spring", "Summer", "Fall">>

\* the dict add_term_block appends
TermConfig(name, start, end, rate_label) ==
    [name |-> name, start |-> start, end |-> end,
     rate_label |-> rate_label, multiplier |-> INTENSITY_OPTIONS[rate_label]]

\* amount * multiplier, the amount in quarter-cents, the multiplier in quarters
Times(amount, multiplier) == (amount * multiplier) \div 4

\* the list comprehension of build_forecast: the terms active on date d
RECURSIVE ActiveTerms(_, _)
ActiveTerms(cfgs, d) ==
    IF cfgs = <<>> THEN <<>>
    ELSE LET c == Head(cfgs)
             rest == ActiveTerms(Tail(cfgs), d)
         IN IF c.start # NoDate /\ c.end # NoDate
               /\ DateLE(c.start, d) /\ DateLE(d, c.end)
            THEN <<c>> \o rest
            ELSE rest

\* mutant of MaxByMultiplier: the first active term is taken
MaxByMultiplierFirst(terms) == Head(terms)

\* max(active_terms, key=lambda c: c["multiplier"]): the first maximal element
RECURSIVE MaxByMultiplier(_)
MaxByMultiplier(terms) ==
    IF Len(terms) = 1 THEN Head(terms)
    ELSE LET best == MaxByMultiplier(Tail(terms)) IN
         IF Head(terms).multiplier >= best.multiplier THEN Head(terms) ELSE best

\* the enrollment label chosen by the if/else on active_terms
EnrollmentLabel(active_terms) ==
    IF active_terms # <<>>
    THEN MaxByMultiplier(active_terms).rate_label
    ELSE "Not enrolled"

\* mutant of Multiplier: a month without an active term is paid as full time
MultiplierFullWhenIdle(active_terms) ==
    IF active_terms # <<>>
    THEN MaxByMultiplier(active_terms).multiplier
    ELSE 4

\* the multiplier chosen by the if/else on active_terms, in quarters
Multiplier(active_terms) ==
    IF active_terms # <<>>
    THEN MaxByMultiplier(active_terms).multiplier
    ELSE 0

\* mutant of AddNet: the balance is overwritten by the month's net cash
AddNetOverwrites(bal, net) == net

\* balance += net
AddNet(bal, net) == bal + net

\* one pass of the loop body of build_forecast for month d, entered with
\* running balance bal: the row appended to data
ForecastRow(d, bal) ==
    LET active_terms == ActiveTerms(term_configs, d)
        enrollment_label == EnrollmentLabel(active_terms)
        multiplier == Multiplier(active_terms)
        income_bah == Times(bah_full_time_base, multiplier)
        income_disability == disability_monthly
        income_other == other_income_monthly
        total_income == income_bah + income_disability + income_other
        total_expenses == fixed_expenses_monthly + variable_expenses_monthly
        net == total_income - total_expenses
    IN [Month |-> d,
        Enrollment_status |-> enrollment_label,
        MHA |-> income_bah,
        Disability |-> income_disability,
        Other_income |-> income_other,
        Total_income |-> total_income,
        Fixed_expenses |-> fixed_expenses_monthly,
        Variable_expenses |-> variable_expenses_monthly,
        Total_expenses |-> total_expenses,
        Net_cash |-> net,
        Projected_balance |-> AddNet(bal, net)]

----------------------------------------------------------------------------
(* Inputs of the forecaster *)

\* first month of the forecast inputs plus k months, on day d
MonthDate(k, d) ==
    Date(2025 + ((11 + k) \div 12), ((11 + k) % 12) + 1, d)

ForecastStarts == {MonthDate(k, d) : k \in 0..MaxSpan, d \in 1..MaxDay}
ForecastEnds == {MonthDate(k, 1) : k \in 0..MaxSpan}

\* [start, end] of a term: active in Dec and Jan; active in Jan only (starts
\* on the 2nd of Dec); never active (start is None); never active (end is None)
TermRanges ==
    {<<Date(2025, 12, 1), Date(2026, 1, 1)>>,
     <<Date(2025, 12, 2), Date(2026, 1, 2)>>,
     <<NoDate, Date(2026, 1, 1)>>,
     <<Date(2026, 1, 1), NoDate>>}

TermLists ==
    UNION {[1..n -> TermRanges \X DOMAIN INTENSITY_OPTIONS] : n \in 0..MaxTerms}

\* the list main builds by calling add_term_block for each enabled term
BuildTermConfigs(choice) ==
    [i \in 1..Len(choice) |->
        TermConfig(TermNames[i], choice[i][1][1], choice[i][1][2], choice[i][2])]

\* amounts in quarter-cents: savings, base housing, disability, other income,
\* fixed and variable expenses
Cashflows ==
    {[savings |-> 400000, bah |-> 960000, disability |-> 0, other |-> 0,
      fixed |-> 200000, variable |-> 80000],
     [savings |-> 0, bah |-> 480004, disability |-> 120000, other |-> 40000,
      fixed |-> 100000, variable |-> 60000]}

NoProfile == [gi_percentage |-> 0, school_type |-> "public_in_state",
              rate_of_pursuit |-> "full_time", credits_this_term |-> 0,
              tuition_this_term |-> 0]
NoConfig == [private_foreign_tuition_cap_year |-> 0, books_cap_year |-> 0,
             per_credit_books_full |-> 0, terms_per_year |-> 1]
NoResult == [monthly_housing |-> 0, books_for_term |-> 0,
             tuition_covered |-> 0, tuition_out_of_pocket |-> 0]

\* main has not derived its metrics
SummaryIdle ==
    /\ final_balance = 0
    /\ min_balance = 0
    /\ runway_months = 0
    /\ month_negative = NoDate

BenefitsIdle ==
    /\ profile = NoProfile
    /\ cfg = NoConfig
    /\ full_mha_for_zip = 0
    /\ outcome = "none"
    /\ result = NoResult

----------------------------------------------------------------------------
(* build_forecast *)

Init ==
    /\ pc = "build_forecast"
    /\ start_date \in ForecastStarts
    /\ end_date \in ForecastEnds
    /\ \E c \in Cashflows :
          /\ starting_savings = c.savings
          /\ bah_full_time_base = c.bah
          /\ disability_monthly = c.disability
          /\ other_income_monthly = c.other
          /\ fixed_expenses_monthly = c.fixed
          /\ variable_expenses_monthly = c.variable
    /\ \E choice \in TermLists : term_configs = BuildTermConfigs(choice)
    /\ dates = <<>>
    /\ data = <<>>
    /\ balance = 0
    /\ BenefitsIdle
    /\ SummaryIdle

\* dates = generate_months(...); data = []; balance = starting_savings
BuildForecastEnter ==
    /\ pc = "build_forecast"
    /\ dates' = generate_months(start_date, end_date)
    /\ data' = <<>>
    /\ balance' = starting_savings
    /\ pc' = "forecast_loop"
    /\ UNCHANGED <<start_date, end_date, starting_savings, bah_full_time_base,
                   disability_monthly, other_income_monthly,
                   fixed_expenses_monthly, variable_expenses_monthly,
                   term_configs, benefitVars, summaryVars>>

\* one iteration of "for d in dates"
BuildForecastMonth ==
    /\ pc = "forecast_loop"
    /\ Len(data) < Len(dates)
    /\ LET row == ForecastRow(dates[Len(data) + 1], balance) IN
          /\ balance' = row.Projected_balance
          /\ data' = Append(data, row)
    /\ UNCHANGED <<pc, start_date, end_date, starting_savings,
                   bah_full_time_base, disability_monthly,
                   other_income_monthly, fixed_expenses_monthly,
                   variable_expenses_monthly, term_configs, dates, benefitVars, summaryVars>>

\* the loop is exhausted: df = pd.DataFrame(data); return df
BuildForecastReturn ==
    /\ pc = "forecast_loop"
    /\ Len(data) = Len(dates)
    /\ pc' = "forecast_done"
    /\ UNCHANGED <<forecastVars, benefitVars, summaryVars>>

Next == BuildForecastEnter \/ BuildForecastMonth \/ BuildForecastReturn

Spec == Init /\ [][Next]_vars

----------------------------------------------------------------------------
(* generate_months on its own, over every month of the year *)

MonthsStarts == {Date(2025, m, d) : m \in 1..12, d \in 1..MaxDay}
MonthsEnds ==
    {Date(y, m, d) : y \in 2025..(2025 + MaxYearSpan), m \in 1..12, d \in 1..MaxDay}

InitMonths ==
    /\ pc = "generate_months"
    /\ start_date \in MonthsStarts
    /\ end_date \in MonthsEnds
    /\ starting_savings = 0
    /\ bah_full_time_base = 0
    /\ disability_monthly = 0
    /\ other_income_monthly = 0
    /\ fixed_expenses_monthly = 0
    /\ variable_expenses_monthly = 0
    /\ term_configs = <<>>
    /\ dates = <<>>
    /\ data = <<>>
    /\ balance = 0
    /\ BenefitsIdle
    /\ SummaryIdle

\* months = generate_months(start_date, end_date)
GenerateMonthsCall ==
    /\ pc = "generate_months"
    /\ dates' = generate_months(start_date, end_date)
    /\ pc' = "months_done"
    /\ UNCHANGED <<start_date, end_date, starting_savings, bah_full_time_base,
                   disability_monthly, other_income_monthly,
                   fixed_expenses_monthly, variable_expenses_monthly,
                   term_configs, data, balance, benefitVars, summaryVars>>

NextMonths == GenerateMonthsCall

SpecMonths == InitMonths /\ [][NextMonths]_vars

----------------------------------------------------------------------------
(* calculations.py: the benefit estimator.  Amounts are cents; a float that *)
(* is not a whole number of cents is a fraction <<n, d>> of cents, d > 0.   *)

\* n / d with the sign carried by the numerator (d # 0)
Frac(n, d) == IF d < 0 THEN <<-n, -d>> ELSE <<n, d>>

FracLE(a, b) == a[1] * b[2] <= b[1] * a[2]

\* min(a, b) and max(a, b) of Python: the first argument unless the second
\* is strictly smaller (larger)
FracMin(a, b) == IF FracLE(a, b) THEN a ELSE b
FracMax(a, b) == IF FracLE(b, a) THEN a ELSE b

FracSub(a, b) == <<a[1] * b[2] - b[1] * a[2], a[2] * b[2]>>

\* round(x, 2) of a fraction of cents, as whole cents: the nearest cent; at a
\* half-way value the float held by the program may lie on either side of it,
\* and tie_up says on which
Round2(x, tie_up) ==
    LET floor == x[1] \div x[2]
        rest == x[1] - floor * x[2]
    IN IF 2 * rest > x[2] THEN floor + 1
       ELSE IF 2 * rest < x[2] THEN floor
       ELSE IF tie_up THEN floor + 1 ELSE floor

\* mutant of rate_of_pursuit_multiplier: under half time is paid at 0.25, the
\* multiplier the forecaster's intensity options give it
rate_of_pursuit_multiplier_quarter(rop) ==
    CASE rop = "full_time" -> 4
      [] rop = "three_quarter" -> 3
      [] rop = "half_time" -> 2
      [] OTHER -> 1

\* rate_of_pursuit_multiplier, in quarters
rate_of_pursuit_multiplier(rop) ==
    CASE rop = "full_time" -> 4
      [] rop = "three_quarter" -> 3
      [] rop = "half_time" -> 2
      [] OTHER -> 0

\* full_mha_for_zip * gi_mult * rop_mult
estimate_monthly_housing(full_mha, p) ==
    Frac(full_mha * p.gi_percentage * rate_of_pursuit_multiplier(p.rate_of_pursuit),
         100 * 4)

\* mutant of estimate_books_for_term: the per-term cap is not applied
estimate_books_uncapped(p, c) ==
    Frac(c.per_credit_books_full * p.credits_this_term * p.gi_percentage, 100)

\* min(raw_for_term, per_term_cap); the division needs terms_per_year # 0
estimate_books_for_term(p, c) ==
    LET raw_for_term ==
            Frac(c.per_credit_books_full * p.credits_this_term * p.gi_percentage, 100)
        per_term_cap == Frac(c.books_cap_year, c.terms_per_year)
    IN FracMin(raw_for_term, per_term_cap)

\* mutant of TuitionCovered: the private/foreign branch pays the per-term cap
\* without the min against the billed amount
TuitionCoveredNoMin(p, c) ==
    IF p.school_type = "public_in_state"
    THEN Frac(p.tuition_this_term * p.gi_percentage, 100)
    ELSE Frac(c.private_foreign_tuition_cap_year * p.gi_percentage,
              100 * c.terms_per_year)

\* mutant of TuitionCovered: the private/foreign cap is not scaled by the
\* GI percentage
TuitionCoveredFullCap(p, c) ==
    IF p.school_type = "public_in_state"
    THEN Frac(p.tuition_this_term * p.gi_percentage, 100)
    ELSE FracMin(<<p.tuition_this_term, 1>>,
                 Frac(c.private_foreign_tuition_cap_year, c.terms_per_year))

\* covered, as estimate_tuition_coverage_for_term computes it before rounding;
\* the private/foreign branch needs terms_per_year # 0
TuitionCovered(p, c) ==
    IF p.school_type = "public_in_state"
    THEN Frac(p.tuition_this_term * p.gi_percentage, 100)
    ELSE FracMin(<<p.tuition_this_term, 1>>,
                 Frac(c.private_foreign_tuition_cap_year * p.gi_percentage,
                      100 * c.terms_per_year))

\* the dict estimate_tuition_coverage_for_term returns
estimate_tuition_coverage_for_term(p, c, tie_covered, tie_out) ==
    LET billed == <<p.tuition_this_term, 1>>
        covered == TuitionCovered(p, c)
        out_of_pocket == FracMax(<<0, 1>>, FracSub(billed, covered))
    IN [covered |-> Round2(covered, tie_covered),
        out_of_pocket |-> Round2(out_of_pocket, tie_out)]

\* the call divides by zero: books always divide by terms_per_year, tuition
\* does in the private/foreign branch
RaisesZeroDivision(p, c) == c.terms_per_year = 0

\* the dict estimate_all_benefits_for_term returns; ties gives the side a
\* half-way value falls to in each of the four round(..., 2)
estimate_all_benefits_for_term(p, c, full_mha, ties) ==
    LET housing == estimate_monthly_housing(full_mha, p)
        books == estimate_books_for_term(p, c)
        tuition_info == estimate_tuition_coverage_for_term(p, c, ties[3], ties[4])
    IN [monthly_housing |-> Round2(housing, ties[1]),
        books_for_term |-> Round2(books, ties[2]),
        tuition_covered |-> tuition_info.covered,
        tuition_out_of_pocket |-> tuition_info.out_of_pocket]

----------------------------------------------------------------------------
(* Inputs of the estimator *)

MaxTermsPerYear == 3     \* terms_per_year is drawn from -1..MaxTermsPerYear

GiPercentages == {0, 40, 50, 100}
SchoolTypes == {"public_in_state", "private_or_foreign"}
RatesOfPursuit == {"full_time", "three_quarter", "half_time", "less_than_half"}
Credits == {0, 12, 30}
\* 0.00, 0.01, 1000.01, 4000.00 and 20000.00 USD
Tuitions == {0, 1, 100001, 400000, 2000000}
\* 0.01, 2400.00 and 4000.00 USD
FullMhas == {1, 240000, 400000}
\* config.py and cli.py: books cap 1000.00, 41.67 per credit, tuition cap
\* 29000.00; and a books cap of 2000.00
RatesConfigs ==
    {[private_foreign_tuition_cap_year |-> 2900000, books_cap_year |-> b,
      per_credit_books_full |-> 4167, terms_per_year |-> t] :
        b \in {100000, 200000}, t \in (-1)..MaxTermsPerYear}

ForecastIdle ==
    /\ start_date = NoDate
    /\ end_date = NoDate
    /\ starting_savings = 0
    /\ bah_full_time_base = 0
    /\ disability_monthly = 0
    /\ other_income_monthly = 0
    /\ fixed_expenses_monthly = 0
    /\ variable_expenses_monthly = 0
    /\ term_configs = <<>>
    /\ dates = <<>>
    /\ data = <<>>
    /\ balance = 0

InitBenefits ==
    /\ pc = "estimate_all_benefits_for_term"
    /\ profile \in [gi_percentage : GiPercentages, school_type : SchoolTypes,
                    rate_of_pursuit : RatesOfPursuit, credits_this_term : Credits,
                    tuition_this_term : Tuitions]
    /\ cfg \in RatesConfigs
    /\ full_mha_for_zip \in FullMhas
    /\ outcome = "none"
    /\ result = NoResult
    /\ ForecastIdle
    /\ SummaryIdle

\* the call returns its dict
EstimateReturns ==
    /\ pc = "estimate_all_benefits_for_term"
    /\ ~RaisesZeroDivision(profile, cfg)
    /\ \E ties \in [1..4 -> BOOLEAN] :
          result' = estimate_all_benefits_for_term(profile, cfg, full_mha_for_zip, ties)
    /\ outcome' = "returned"
    /\ pc' = "estimate_done"
    /\ UNCHANGED <<forecastVars, profile, cfg, full_mha_for_zip, summaryVars>>

\* the call ends in Python's ZeroDivisionError, without a result
EstimateRaises ==
    /\ pc = "estimate_all_benefits_for_term"
    /\ RaisesZeroDivision(profile, cfg)
    /\ outcome' = "ZeroDivisionError"
    /\ pc' = "estimate_done"
    /\ UNCHANGED <<forecastVars, profile, cfg, full_mha_for_zip, result,
                   summaryVars>>

NextBenefits == EstimateReturns \/ EstimateRaises

SpecBenefits == InitBenefits /\ [][NextBenefits]_vars

----------------------------------------------------------------------------
(* Properties of the forecaster *)

\* the balance a row was entered with
PreviousBalance(i) ==
    IF i = 1 THEN starting_savings ELSE data[i - 1].Projected_balance

\* C1: in every forecast the first row's balance is starting_savings plus its
\* net cash, every later row's balance is the previous row's balance plus its
\* own net cash, net cash is (MHA + disability + other income) - (fixed +
\* variable expenses), and the disability, other-income, fixed and variable
\* figures of every row are the arguments of the call.
C1_RunningBalance ==
    pc \in {"forecast_loop", "forecast_done"} =>
        \A i \in 1..Len(data) :
            /\ data[i].Projected_balance = PreviousBalance(i) + data[i].Net_cash
            /\ data[i].Net_cash =
                  (data[i].MHA + data[i].Disability + data[i].Other_income)
                  - (data[i].Fixed_expenses + data[i].Variable_expenses)
            /\ data[i].Disability = disability_monthly
            /\ data[i].Other_income = other_income_monthly
            /\ data[i].Fixed_expenses = fixed_expenses_monthly
            /\ data[i].Variable_expenses = variable_expenses_monthly

\* a returned forecast of three rows whose net cash is not zero
C1_Witness ==
    /\ pc = "forecast_done"
    /\ Len(data) = 3
    /\ data[1].Net_cash # 0
    /\ data[3].Projected_balance # data[1].Projected_balance

\* C2: for start_date <= end_date the forecast has
\* 12*(end.year - start.year) + (end.month - start.month) + 1 rows, whatever
\* the days of the month, also across a December-to-January boundary.
C2_ForecastLength ==
    (pc = "forecast_done" /\ DateLE(start_date, end_date)) =>
        Len(data) = 12 * (end_date.year - start_date.year)
                    + (end_date.month - start_date.month) + 1

\* a returned forecast that starts after the 1st of December and ends in the
\* next year
C2_Witness ==
    /\ pc = "forecast_done"
    /\ DateLE(start_date, end_date)
    /\ start_date.day > 1
    /\ start_date.month = 12
    /\ end_date.year = start_date.year + 1
    /\ Len(data) >= 2

\* months since year 0 of a date
MonthIndex(d) == 12 * d.year + (d.month - 1)

\* the months are first-of-month dates, one calendar month apart, ascending
ConsecutiveMonths ==
    /\ \A i \in 1..Len(dates) : dates[i].day = 1
    /\ \A i \in 1..(Len(dates) - 1) :
          MonthIndex(dates[i + 1]) = MonthIndex(dates[i]) + 1

EnumeratedMonths == {dates[i] : i \in 1..Len(dates)}

FirstOfMonth(d) == Date(d.year, d.month, 1)

\* every first-of-month date of the years the inputs span
CalendarMonths ==
    {Date(y, m, 1) : y \in start_date.year..(2025 + MaxYearSpan), m \in 1..12}

\* C3 as claimed: the months enumerated are exactly the calendar months whose
\* first day d satisfies start_date <= d <= end_date, in strictly ascending
\* order, none skipped or repeated.
C3_AsClaimed ==
    pc = "months_done" =>
        /\ ConsecutiveMonths
        /\ EnumeratedMonths =
              {d \in CalendarMonths : DateLE(start_date, d) /\ DateLE(d, end_date)}

\* C3 as amended: the months enumerated are exactly the calendar months, from
\* the month of start_date on, whose first day is not after end_date: every
\* Month is a first-of-month date d with
\* first-of-month(start_date) <= d <= end_date, in strictly ascending order,
\* none skipped or repeated.
C3_MonthsEnumerated ==
    pc = "months_done" =>
        /\ ConsecutiveMonths
        /\ EnumeratedMonths =
              {d \in CalendarMonths :
                  DateLE(FirstOfMonth(start_date), d) /\ DateLE(d, end_date)}

\* months enumerated from a start after the 1st, up to December and beyond
C3_Witness ==
    /\ pc = "months_done"
    /\ start_date.day > 1
    /\ Len(dates) >= 3
    /\ dates[1] = FirstOfMonth(start_date)
    /\ dates[Len(dates)].year > dates[1].year

\* the positions in term_configs of the entries whose [start, end] contains d
ActiveAt(d) ==
    {k \in 1..Len(term_configs) :
        /\ term_configs[k].start # NoDate
        /\ term_configs[k].end # NoDate
        /\ DateLE(term_configs[k].start, d)
        /\ DateLE(d, term_configs[k].end)}

\* the highest multiplier among the entries active at d
HighestMultiplier(d) ==
    CHOOSE m \in {term_configs[k].multiplier : k \in ActiveAt(d)} :
        \A k \in ActiveAt(d) : term_configs[k].multiplier <= m

\* C4: in every month for which some term-schedule entry's [start, end]
\* contains the month's first-of-month date, MHA is the base housing amount
\* times the highest multiplier among those entries, and the enrollment label
\* is the label of an entry that has that multiplier.
C4_HighestMultiplier ==
    pc \in {"forecast_loop", "forecast_done"} =>
        \A i \in 1..Len(data) :
            LET d == data[i].Month IN
            ActiveAt(d) # {} =>
                /\ data[i].MHA * 4 = bah_full_time_base * HighestMultiplier(d)
                /\ \E k \in ActiveAt(d) :
                      /\ term_configs[k].multiplier = HighestMultiplier(d)
                      /\ data[i].Enrollment_status = term_configs[k].rate_label

\* a month covered by a half-time term listed before a full-time term, paid
\* at the full base amount
C4_Witness ==
    /\ pc = "forecast_done"
    /\ bah_full_time_base > 0
    /\ \E i \in 1..Len(data) :
          /\ ActiveAt(data[i].Month) = {1, 2}
          /\ term_configs[1].multiplier = 2
          /\ term_configs[2].multiplier = 4
          /\ data[i].MHA = bah_full_time_base
          /\ data[i].Enrollment_status = "Full time (100%)"

\* C5: a month in which no term is active (every month, when term_configs is
\* empty) is labelled "Not enrolled", has MHA 0 whatever the base housing
\* amount, and has net cash disability + other income - fixed - variable.
C5_NotEnrolled ==
    pc \in {"forecast_loop", "forecast_done"} =>
        \A i \in 1..Len(data) :
            ActiveAt(data[i].Month) = {} =>
                /\ data[i].Enrollment_status = "Not enrolled"
                /\ data[i].MHA = 0
                /\ data[i].Net_cash =
                      disability_monthly + other_income_monthly
                      - fixed_expenses_monthly - variable_expenses_monthly

\* a returned forecast with an empty term schedule and a positive base
\* housing amount
C5_Witness ==
    /\ pc = "forecast_done"
    /\ term_configs = <<>>
    /\ bah_full_time_base > 0
    /\ Len(data) >= 2
    /\ \A i \in 1..Len(data) : data[i].MHA = 0

----------------------------------------------------------------------------
(* Properties of the estimator *)

Abs(x) == IF x < 0 THEN -x ELSE x
Max0(x) == IF x < 0 THEN 0 ELSE x
Least(x, y) == IF x <= y THEN x ELSE y

\* the call has returned its dict under a valid config (terms_per_year >= 1)
Returned ==
    /\ pc = "estimate_done"
    /\ outcome = "returned"
    /\ cfg.terms_per_year >= 1

\* C6 as claimed: the returned tuition_out_of_pocket equals
\* max(0, tuition_this_term - tuition_covered), tuition_covered is at most
\* tuition_this_term, and out-of-pocket is never negative.
C6_AsClaimed ==
    Returned =>
        /\ result.tuition_out_of_pocket =
              Max0(profile.tuition_this_term - result.tuition_covered)
        /\ result.tuition_covered <= profile.tuition_this_term
        /\ result.tuition_out_of_pocket >= 0

\* C6 as amended: for a tuition in whole cents, the returned tuition_covered
\* is at most tuition_this_term, tuition_out_of_pocket is never negative, and
\* tuition_out_of_pocket differs from
\* max(0, tuition_this_term - tuition_covered) by at most one cent.
C6_OutOfPocket ==
    Returned =>
        /\ Abs(result.tuition_out_of_pocket
               - Max0(profile.tuition_this_term - result.tuition_covered)) <= 1
        /\ result.tuition_covered <= profile.tuition_this_term
        /\ result.tuition_out_of_pocket >= 0

\* 1000.01 billed at 50%: 500.005 covered and 500.005 out of pocket, both
\* returned as 500.00
C6_Witness ==
    /\ Returned
    /\ profile.school_type = "public_in_state"
    /\ profile.gi_percentage = 50
    /\ profile.tuition_this_term = 100001
    /\ result.tuition_covered = 50000
    /\ result.tuition_out_of_pocket = 50000

\* 100 * terms_per_year times min(raw amount, books_cap_year / terms_per_year)
BooksBoundScaled ==
    Least(cfg.per_credit_books_full * profile.credits_this_term
              * profile.gi_percentage * cfg.terms_per_year,
          cfg.books_cap_year * 100)

\* C7 as claimed: for a valid config the returned books_for_term is
\* min(per_credit_books_full * credits_this_term * gi_percentage/100,
\* books_cap_year / terms_per_year) and never exceeds
\* books_cap_year / terms_per_year.
C7_AsClaimed ==
    Returned =>
        /\ result.books_for_term * 100 * cfg.terms_per_year = BooksBoundScaled
        /\ result.books_for_term * cfg.terms_per_year <= cfg.books_cap_year

\* C7 as amended: for a valid config the returned books_for_term is that
\* minimum rounded to the cent; it is within half a cent of the minimum and
\* exceeds books_cap_year / terms_per_year by at most half a cent.
C7_BooksForTerm ==
    Returned =>
        /\ 2 * Abs(result.books_for_term * 100 * cfg.terms_per_year
                   - BooksBoundScaled) <= 100 * cfg.terms_per_year
        /\ 2 * (result.books_for_term * cfg.terms_per_year - cfg.books_cap_year)
              <= cfg.terms_per_year

\* 12 credits at 41.67 with cap 1000.00 and 2 terms: 500.00, not 500.04
C7_Witness ==
    /\ Returned
    /\ profile.credits_this_term = 12
    /\ profile.gi_percentage = 100
    /\ cfg.books_cap_year = 100000
    /\ cfg.terms_per_year = 2
    /\ result.books_for_term = 50000

\* the fixed lookup of the housing multiplier, in quarters
HousingQuarters(rop) ==
    CASE rop = "full_time" -> 4
      [] rop = "three_quarter" -> 3
      [] rop = "half_time" -> 2
      [] rop = "less_than_half" -> 0

\* 400 times full_mha_for_zip * (gi_percentage/100) * m
HousingScaled ==
    full_mha_for_zip * profile.gi_percentage
        * HousingQuarters(profile.rate_of_pursuit)

\* C8 as claimed: the returned monthly_housing equals
\* full_mha_for_zip * (gi_percentage/100) * m, m being 1.0, 0.75, 0.5, 0.0 for
\* FULL_TIME, THREE_QUARTER, HALF_TIME, LESS_THAN_HALF, so it is 0 for
\* LESS_THAN_HALF.
C8_AsClaimed ==
    Returned =>
        /\ result.monthly_housing * 400 = HousingScaled
        /\ profile.rate_of_pursuit = "less_than_half" => result.monthly_housing = 0

\* C8 as amended: the returned monthly_housing is
\* full_mha_for_zip * (gi_percentage/100) * m rounded to the cent (within half
\* a cent of it), with the same lookup, so it is 0 for LESS_THAN_HALF.
C8_MonthlyHousing ==
    Returned =>
        /\ 2 * Abs(result.monthly_housing * 400 - HousingScaled) <= 400
        /\ profile.rate_of_pursuit = "less_than_half" => result.monthly_housing = 0

\* less than half time at 100% with a full MHA of 4000.00: no housing
C8_Witness ==
    /\ Returned
    /\ profile.rate_of_pursuit = "less_than_half"
    /\ profile.gi_percentage = 100
    /\ full_mha_for_zip = 400000
    /\ result.monthly_housing = 0

\* 100 * terms_per_year times
\* min(tuition_this_term, cap * gi_percentage/100 / terms_per_year)
PrivateCoveredScaled ==
    Least(profile.tuition_this_term * 100 * cfg.terms_per_year,
          cfg.private_foreign_tuition_cap_year * profile.gi_percentage)

\* C9 as claimed: PUBLIC_IN_STATE: tuition_covered =
\* tuition_this_term * gi_percentage/100, whatever the cap and terms_per_year;
\* PRIVATE_OR_FOREIGN: tuition_covered = min(tuition_this_term,
\* (cap * gi_percentage/100) / terms_per_year), never above that share of the
\* cap.
C9_AsClaimed ==
    Returned =>
        /\ profile.school_type = "public_in_state" =>
              result.tuition_covered * 100
                  = profile.tuition_this_term * profile.gi_percentage
        /\ profile.school_type = "private_or_foreign" =>
              /\ result.tuition_covered * 100 * cfg.terms_per_year
                    = PrivateCoveredScaled
              /\ result.tuition_covered * 100 * cfg.terms_per_year
                    <= cfg.private_foreign_tuition_cap_year * profile.gi_percentage

\* C9 as amended: tuition_covered is the branch's amount rounded to the cent:
\* PUBLIC_IN_STATE: within half a cent of tuition_this_term * gi_percentage/100,
\* whatever the cap and terms_per_year; PRIVATE_OR_FOREIGN: within half a cent
\* of min(tuition_this_term, (cap * gi_percentage/100) / terms_per_year), so
\* above that share of the cap by at most half a cent.
C9_TuitionCovered ==
    Returned =>
        /\ profile.school_type = "public_in_state" =>
              2 * Abs(result.tuition_covered * 100
                      - profile.tuition_this_term * profile.gi_percentage) <= 100
        /\ profile.school_type = "private_or_foreign" =>
              /\ 2 * Abs(result.tuition_covered * 100 * cfg.terms_per_year
                         - PrivateCoveredScaled) <= 100 * cfg.terms_per_year
              /\ 2 * (result.tuition_covered * 100 * cfg.terms_per_year
                      - cfg.private_foreign_tuition_cap_year * profile.gi_percentage)
                    <= 100 * cfg.terms_per_year

\* 20000.00 billed by a private school at 50% with 2 terms: the share of the
\* 29000.00 cap, 7250.00, is covered
C9_Witness ==
    /\ Returned
    /\ profile.school_type = "private_or_foreign"
    /\ profile.gi_percentage = 50
    /\ profile.tuition_this_term = 2000000
    /\ cfg.terms_per_year = 2
    /\ result.tuition_covered = 725000

\* C10: whenever terms_per_year <= 0 the call ends in an invalid-configuration
\* error and produces no output: it neither raises a raw division by zero nor
\* returns a result.
C10_InvalidConfiguration ==
    (pc = "estimate_done" /\ cfg.terms_per_year <= 0) =>
        /\ outcome = "InvalidConfiguration"
        /\ result = NoResult

----------------------------------------------------------------------------
(* The estimator called with a profile outside its documented domain *)

\* gi_percentage in 0..100, credits_this_term >= 0, tuition_this_term >= 0
ValidProfile(p) ==
    /\ p.gi_percentage >= 0
    /\ p.gi_percentage <= 100
    /\ p.credits_this_term >= 0
    /\ p.tuition_this_term >= 0

\* profiles with a percentage of -10 or 150, -3 credits or a tuition of
\* -1000.00, at least one of them
InvalidProfiles ==
    {p \in [gi_percentage : {-10, 50, 150}, school_type : SchoolTypes,
            rate_of_pursuit : RatesOfPursuit, credits_this_term : {-3, 12},
            tuition_this_term : {-100000, 400000}] : ~ValidProfile(p)}

InitBenefitsInvalid ==
    /\ pc = "estimate_all_benefits_for_term"
    /\ profile \in InvalidProfiles
    /\ cfg \in RatesConfigs
    /\ full_mha_for_zip \in FullMhas
    /\ outcome = "none"
    /\ result = NoResult
    /\ ForecastIdle
    /\ SummaryIdle

SpecBenefitsInvalid == InitBenefitsInvalid /\ [][NextBenefits]_vars

\* C11: a call (under a valid config) whose gi_percentage is outside [0,100], or whose
\* credits_this_term or tuition_this_term is negative, ends in an
\* invalid-input error and returns no benefit figures.
C11_InvalidInputRejected ==
    (pc = "estimate_done" /\ cfg.terms_per_year >= 1 /\ ~ValidProfile(profile)) =>
        /\ outcome = "InvalidInput"
        /\ result = NoResult

----------------------------------------------------------------------------
(* build_forecast called with end_date before start_date *)

\* C12: a call with end_date earlier than start_date is rejected with an
\* invalid-input error before any month is computed: it never gets to its
\* loop and never returns a forecast, empty or not.
C12_InvertedRangeRejected ==
    DateLT(end_date, start_date) =>
        /\ pc \in {"build_forecast", "forecast_rejected"}
        /\ data = <<>>

----------------------------------------------------------------------------
(* app.py main: sidebar inputs -> get_effective_rate_of_pursuit ->          *)
(* estimate_all_benefits_for_term -> build_forecast -> summary metrics      *)

\* config.py DEFAULT_ANNUAL_RATES, in cents
DEFAULT_ANNUAL_RATES ==
    [private_foreign_tuition_cap_year |-> 2900000, books_cap_year |-> 100000,
     per_credit_books_full |-> 4167, terms_per_year |-> 2]

\* multiplier_to_enum.get(multiplier, RateOfPursuit.FULL_TIME)
multiplier_to_enum(multiplier) ==
    CASE multiplier = 4 -> "full_time"
      [] multiplier = 3 -> "three_quarter"
      [] multiplier = 2 -> "half_time"
      [] multiplier = 1 -> "less_than_half"
      [] OTHER -> "full_time"

get_effective_rate_of_pursuit(forecast_start, cfgs) ==
    IF cfgs = <<>> THEN "full_time"
    ELSE LET at_start == ActiveTerms(cfgs, forecast_start)
             active_terms == IF at_start = <<>> THEN cfgs ELSE at_start
             best_cfg == MaxByMultiplier(active_terms)
         IN multiplier_to_enum(best_cfg.multiplier)

\* a subset of the sidebar's GI Bill percentages, and the full MHA the widget
\* starts with (get_full_mha_for_zip: 4000.00)
MainGiPercentages == {50, 100}
MainFullMhas == {400000}

\* the [start, end] the term widgets allow: forecast_start <= start <= end;
\* beside the ranges of TermRanges, a term active in February only
MainTermRanges(forecast_start) ==
    {r \in TermRanges \cup {<<Date(2026, 2, 1), Date(2026, 2, 1)>>} :
        /\ r[1] # NoDate
        /\ r[2] # NoDate
        /\ DateLE(forecast_start, r[1])
        /\ DateLE(r[1], r[2])}

MainTermLists(forecast_start) ==
    UNION {[1..n -> MainTermRanges(forecast_start) \X DOMAIN INTENSITY_OPTIONS] :
              n \in 0..MaxTerms}

\* sidebar amounts in quarter-cents: savings 1000.00 or 500.00 against
\* expenses of 700.00 a month; no savings with income equal to expenses
MainCashflows ==
    {[savings |-> 400000, disability |-> 0, other |-> 0,
      fixed |-> 200000, variable |-> 80000],
     [savings |-> 200000, disability |-> 0, other |-> 0,
      fixed |-> 200000, variable |-> 80000],
     [savings |-> 0, disability |-> 120000, other |-> 40000,
      fixed |-> 100000, variable |-> 60000]}

\* the sidebar: the end date widget has min_value=forecast_start
InitMain ==
    /\ pc = "main"
    /\ start_date \in ForecastStarts
    /\ end_date \in {e \in ForecastEnds : DateLE(start_date, e)}
    /\ \E c \in MainCashflows :
          /\ starting_savings = c.savings
          /\ disability_monthly = c.disability
          /\ other_income_monthly = c.other
          /\ fixed_expenses_monthly = c.fixed
          /\ variable_expenses_monthly = c.variable
    /\ \E choice \in MainTermLists(start_date) :
          term_configs = BuildTermConfigs(choice)
    /\ bah_full_time_base = 0
    /\ dates = <<>>
    /\ data = <<>>
    /\ balance = 0
    /\ BenefitsIdle
    /\ SummaryIdle

\* cents as quarter-cents
QuarterCents(cents) == 4 * cents

\* rate_of_pursuit, profile, benefits and bah_monthly of main; credits and
\* tuition are the widgets' defaults (12 and 0.0), the school is public
MainEstimate ==
    /\ pc = "main"
    /\ \E gi \in MainGiPercentages, full_mha \in MainFullMhas,
          ties \in [1..4 -> BOOLEAN] :
          LET rate_of_pursuit ==
                  get_effective_rate_of_pursuit(start_date, term_configs)
              p == [gi_percentage |-> gi, school_type |-> "public_in_state",
                    rate_of_pursuit |-> rate_of_pursuit,
                    credits_this_term |-> 12, tuition_this_term |-> 0]
              benefits == estimate_all_benefits_for_term(
                              p, DEFAULT_ANNUAL_RATES, full_mha, ties)
          IN /\ profile' = p
             /\ cfg' = DEFAULT_ANNUAL_RATES
             /\ full_mha_for_zip' = full_mha
             /\ result' = benefits
             /\ bah_full_time_base' = QuarterCents(benefits.monthly_housing)
    /\ outcome' = "returned"
    /\ pc' = "build_forecast"
    /\ UNCHANGED <<start_date, end_date, starting_savings, disability_monthly,
                   other_income_monthly, fixed_expenses_monthly,
                   variable_expenses_monthly, term_configs, dates, data,
                   balance, summaryVars>>

\* df["Projected balance"].min()
MinBalance(rows) ==
    CHOOSE b \in {rows[i].Projected_balance : i \in 1..Len(rows)} :
        \A i \in 1..Len(rows) : b <= rows[i].Projected_balance

\* mutant of FirstNegativeIndex: a balance of exactly 0 counts as negative
RECURSIVE FirstNegativeOrZero(_, _)
FirstNegativeOrZero(rows, i) ==
    IF i > Len(rows) THEN 0
    ELSE IF rows[i].Projected_balance <= 0 THEN i
    ELSE FirstNegativeOrZero(rows, i + 1)

\* negative_mask.idxmax() when negative_mask.any(): the first position from i
\* on whose balance is < 0; 0 when there is none
RECURSIVE FirstNegativeIndex(_, _)
FirstNegativeIndex(rows, i) ==
    IF i > Len(rows) THEN 0
    ELSE IF rows[i].Projected_balance < 0 THEN i
    ELSE FirstNegativeIndex(rows, i + 1)

\* month_negative: df.loc[first_negative_idx, "Month"], or None
MonthNegative(rows) ==
    LET first_negative_idx == FirstNegativeIndex(rows, 1) IN
    IF first_negative_idx = 0 THEN NoDate ELSE rows[first_negative_idx].Month

\* the high-level metrics of main; iloc[-1] needs a row, which the sidebar's
\* start <= end guarantees
MainSummary ==
    /\ pc = "forecast_done"
    /\ Len(data) > 0
    /\ final_balance' = data[Len(data)].Projected_balance
    /\ min_balance' = MinBalance(data)
    /\ runway_months' = Len(data)
    /\ month_negative' = MonthNegative(data)
    /\ pc' = "summary_done"
    /\ UNCHANGED <<forecastVars, benefitVars>>

NextMain ==
    \/ MainEstimate
    \/ BuildForecastEnter
    \/ BuildForecastMonth
    \/ BuildForecastReturn
    \/ MainSummary

SpecMain == InitMain /\ [][NextMain]_vars

----------------------------------------------------------------------------
(* Properties of main *)

Balances == {data[i].Projected_balance : i \in 1..Len(data)}

\* C13: for a non-empty forecast, final balance is the last row's running
\* balance, minimum balance is the least running balance of the rows, and the
\* first month of negative balance is the Month of the earliest row whose
\* running balance is < 0, or none exactly when no row has a running balance
\* < 0 (exactly 0 is not negative; a later recovery does not change it).
C13_SummaryStatistics ==
    pc = "summary_done" =>
        /\ final_balance = data[Len(data)].Projected_balance
        /\ min_balance \in Balances
        /\ \A b \in Balances : min_balance <= b
        /\ month_negative = NoDate <=> \A b \in Balances : b >= 0
        /\ month_negative # NoDate =>
              \E k \in 1..Len(data) :
                  /\ data[k].Projected_balance < 0
                  /\ \A j \in 1..(k - 1) : data[j].Projected_balance >= 0
                  /\ month_negative = data[k].Month

\* a forecast that is at 0 or above, then negative, then positive again:
\* the negative month is reported, the final balance is positive
C13_Witness ==
    /\ pc = "summary_done"
    /\ Len(data) = 3
    /\ data[1].Projected_balance >= 0
    /\ data[2].Projected_balance < 0
    /\ data[3].Projected_balance > 0
    /\ month_negative = data[2].Month
    /\ min_balance = data[2].Projected_balance
    /\ final_balance = data[3].Projected_balance

\* the rows whose running balance is negative
NegativeRows == {i \in 1..Len(data) : data[i].Projected_balance < 0}

\* the row in which the running balance first becomes negative
ExhaustionRow == CHOOSE k \in NegativeRows : \A i \in NegativeRows : k <= i

\* C14: the 'Runway (months)' figure is the number of months until the
\* projected balance is exhausted: when the running balance first becomes
\* negative in row k the runway is given by k (the k - 1 months before it,
\* or k counting the month itself), not by the number of forecast rows.
C14_RunwayFromExhaustion ==
    (pc = "summary_done" /\ NegativeRows # {}) =>
        runway_months \in {ExhaustionRow - 1, ExhaustionRow}

\* C15: main passes the full-time housing amount
\* full_mha_for_zip * gi_percentage/100 to build_forecast as
\* bah_full_time_base, so that a month whose selected term has multiplier m
\* shows MHA = full_mha_for_zip * gi_percentage/100 * m: the enrollment
\* intensity is applied exactly once.
C15_IntensityAppliedOnce ==
    pc \in {"build_forecast", "forecast_loop", "forecast_done", "summary_done"} =>
        /\ bah_full_time_base * 100
              = QuarterCents(full_mha_for_zip * profile.gi_percentage)
        /\ \A i \in 1..Len(data) :
              ActiveAt(data[i].Month) # {} =>
                  data[i].MHA * 100
                      = full_mha_for_zip * profile.gi_percentage
                            * HighestMultiplier(data[i].Month)

====
